---- MODULE Spec2Model ----
(***************************************************************************)
(* The Streamlit script calibrate-power-stock/app.py as a state machine.   *)
(* One run of the script (a render cycle) is: existence check of the CSV,  *)
(* cached load, six categorical sidebar filters, the Start year range      *)
(* filter, the filtered summary, and the two capacity aggregates.  The     *)
(* st.cache_data cache and the file on disk live across runs.              *)
(***************************************************************************)
EXTENDS Integers, Sequences, FiniteSets, TLC

\* ------------------------------------------------------------------ bounds
MaxRows == 3        \* rows of a CSV file
SliderSpan == 1     \* slider positions explored next to each end of the range
YearScale == 2      \* Start year cells are multiples of 1/YearScale of a year
MaxReads == 2       \* cap of the pd.read_csv counter

\* --------------------------------------------------------------- constants
CSV_PATH == "calibrate-power-stock/gem_cleaned_2025.csv"
ALL == "All (no filter)"
DefaultMinYear == 1900
DefaultMaxYear == 2100
SampleSize == 10
MWPerGW == 1000

\* Cell values.  A numeric column holds a number scaled as the column needs,
\* NaN for a missing value, and (before coercion) Bad for text that does not
\* parse.  A categorical column holds a string or NA.
NaN == -1
Bad == -2
NA == "<NA>"

CategoricalColumns ==
  {"Plant Type", "Technology", "Region", "Subregion", "Country/area", "Status"}
NumericColumns == {"Start year", "Retired year", "installed capacity MW"}
AllColumns == CategoricalColumns \cup NumericColumns

\* Python's str order on the category values of the sample table.
Lexicographic ==
  <<"Asia", "China", "Western Europe", "coal", "gas", "operating", "retired",
    "subcritical">>
StrRank(s) == CHOOSE i \in 1..Len(Lexicographic) : Lexicographic[i] = s

\* A Start year of y years and f/YearScale.
Year(y, f) == y * YearScale + f

Cells(pt, tech, region, sub, country, status, sy, ry, cap) ==
  [c \in AllColumns |->
     CASE c = "Plant Type" -> pt
       [] c = "Technology" -> tech
       [] c = "Region" -> region
       [] c = "Subregion" -> sub
       [] c = "Country/area" -> country
       [] c = "Status" -> status
       [] c = "Start year" -> sy
       [] c = "Retired year" -> ry
       [] OTHER -> cap]

\* The rows CSV files are drawn from.
SampleTable ==
  << Cells("coal", "subcritical", "Asia", NA, "China", "operating",
           Year(2000, 0), NaN, 1000),
     Cells("coal", NA, "Asia", NA, NA, "operating",
           Year(2000, 0), Bad, 2000),
     Cells("gas", NA, NA, NA, NA, "operating",
           Bad, NaN, 500),
     Cells("gas", NA, NA, "Western Europe", NA, "retired",
           Year(2002, 0), Year(2020, 0), 500),
     Cells(NA, NA, NA, NA, NA, NA,
           Year(2001, 1), NaN, NaN) >>

Min(S) == CHOOSE x \in S : \A y \in S : x <= y
Max(S) == CHOOSE x \in S : \A y \in S : x >= y

RECURSIVE Pick(_)
\* The rows of SampleTable at the positions I, in table order.
Pick(I) ==
  IF I = {} THEN <<>>
  ELSE LET m == Max(I) IN Append(Pick(I \ {m}), SampleTable[m])

\* A CSV file: its header and its body.
File(cols, body) ==
  [columns |-> cols,
   rows |-> [i \in 1..Len(body) |-> [c \in cols |-> body[i][c]]]]

ColumnSets == {AllColumns} \cup {AllColumns \ {c} : c \in AllColumns}

Files ==
  {File(cols, Pick(I)) :
     cols \in ColumnSets,
     I \in {J \in SUBSET (1..Len(SampleTable)) : Cardinality(J) <= MaxRows}}

\* What a file can be overwritten with between two runs.
Rewrites(file) == {File(file.columns, Pick({3}))}

NoData == [columns |-> {}, rows |-> <<>>]
NoCache == [p \in {} |-> NoData]

VARIABLES
  fileExists,     \* os.path.exists(abs_path)
  fileData,       \* the content of the CSV file
  cache,          \* st.cache_data entries of load_data: path -> DataFrame
  reads,          \* number of pd.read_csv calls so far
  pc,             \* position of the script run
  message,        \* st.error / st.success shown by this run
  exception,      \* uncaught exception of this run
  df,             \* the loaded DataFrame
  df_filtered,    \* the working DataFrame
  selected,       \* the selected_* lists, by column
  start_low,
  start_high,
  shown,          \* the frame handed to st.dataframe
  cap_by_status,
  df_year

vars ==
  <<fileExists, fileData, cache, reads, pc, message, exception, df,
    df_filtered, selected, start_low, start_high, shown, cap_by_status,
    df_year>>

env == <<fileExists, fileData>>
session == <<cache, reads>>
outputs == <<shown, cap_by_status, df_year>>
filterState == <<df_filtered, selected, start_low, start_high>>

\* ------------------------------------------------------------------ loader
to_numeric(v) == IF v = Bad THEN NaN ELSE v

read_csv(file) ==
  [columns |-> file.columns,
   rows |-> [i \in 1..Len(file.rows) |-> [index |-> i - 1, cells |-> file.rows[i]]]]

load_data_body(file) ==
  LET raw == read_csv(file)
  IN [columns |-> raw.columns,
      rows |-> [i \in 1..Len(raw.rows) |->
                  [index |-> raw.rows[i].index,
                   cells |-> [c \in raw.columns |->
                                IF c \in NumericColumns
                                  THEN to_numeric(raw.rows[i].cells[c])
                                  ELSE raw.rows[i].cells[c]]]]]

\* Fault: the st.cache_data decorator is missing, so no call is served from the cache.
CacheNeverHit(path) == FALSE

CacheHit(path) == path \in DOMAIN cache

\* ----------------------------------------------------------------- filters
Extended(options) == {ALL} \cup options

multiselect_with_all(sel) == IF ALL \in sel THEN {} ELSE sel

dropna_unique(frame, col) ==
  {frame.rows[i].cells[col] : i \in 1..Len(frame.rows)} \ {NA}

\* Fault: rows with a missing value pass a non-empty selection.
isin_or_missing(v, values) == v \in values \/ v = NA

isin(v, values) == v \in values

\* Fault: each block filters the loaded frame instead of the working one.
CategoricalFilterOfLoaded(frame, col, sel) ==
  IF sel # {}
    THEN [frame EXCEPT !.rows = SelectSeq(df.rows, LAMBDA r : r.cells[col] \in sel)]
    ELSE frame

CategoricalFilter(frame, col, sel) ==
  IF sel # {}
    THEN [frame EXCEPT
            !.rows = SelectSeq(frame.rows, LAMBDA r : isin(r.cells[col], sel))]
    ELSE frame

notna(v) == v # NaN

int(v) == v \div YearScale

\* Fault: the lower bound of the range is exclusive.
InRangeAboveLow(v, low, high) ==
  v # NaN /\ v > low * YearScale /\ v <= high * YearScale

\* Fault: rows with a missing Start year are kept.
InRangeOrMissing(v, low, high) ==
  v = NaN \/ (v >= low * YearScale /\ v <= high * YearScale)

InRange(v, low, high) ==
  notna(v) /\ v >= low * YearScale /\ v <= high * YearScale

\* Fault: the kept rows come out latest first.
YearRangeFilterReversed(frame, low, high) ==
  LET kept == SelectSeq(frame.rows,
                        LAMBDA r : r.cells["Start year"] # NaN
                                   /\ r.cells["Start year"] >= low * YearScale
                                   /\ r.cells["Start year"] <= high * YearScale)
  IN [frame EXCEPT !.rows = [k \in 1..Len(kept) |-> kept[Len(kept) + 1 - k]]]

YearRangeFilter(frame, low, high) ==
  [frame EXCEPT
     !.rows = SelectSeq(frame.rows,
                        LAMBDA r : InRange(r.cells["Start year"], low, high))]

SliderValues(lo, hi) ==
  {v \in lo..hi : v <= lo + SliderSpan \/ v >= hi - SliderSpan}

\* -------------------------------------------------------------- aggregates
RECURSIVE GCD(_, _)
GCD(a, b) == IF b = 0 THEN a ELSE GCD(b, a % b)

\* The quotient n / d as a fraction in lowest terms.
Quotient(n, d) ==
  LET g == GCD(n, d)
  IN IF g = 0 THEN [num |-> 0, den |-> 1] ELSE [num |-> n \div g, den |-> d \div g]

Plus(a, b) == Quotient(a.num * b.den + b.num * a.den, a.den * b.den)

RECURSIVE SumColumn(_, _)
\* Series.sum(): missing values are skipped.
SumColumn(rows, col) ==
  IF rows = <<>> THEN 0
  ELSE LET v == Head(rows).cells[col]
       IN (IF notna(v) THEN v ELSE 0) + SumColumn(Tail(rows), col)

RECURSIVE SortedStrings(_)
SortedStrings(S) ==
  IF S = {} THEN <<>>
  ELSE LET m == CHOOSE x \in S : \A y \in S : StrRank(x) <= StrRank(y)
       IN <<m>> \o SortedStrings(S \ {m})

RECURSIVE SortedNumbers(_)
SortedNumbers(S) ==
  IF S = {} THEN <<>>
  ELSE LET m == Min(S) IN <<m>> \o SortedNumbers(S \ {m})

\* Fault: the totals are left in megawatts.
GroupByStatusInMW(frame) ==
  LET keys == SortedStrings(dropna_unique(frame, "Status"))
  IN [k \in 1..Len(keys) |->
        LET mw == SumColumn(SelectSeq(frame.rows,
                                      LAMBDA r : r.cells["Status"] = keys[k]),
                            "installed capacity MW")
        IN [Status |-> keys[k],
            TotalCapacityMW |-> mw,
            TotalCapacityGW |-> Quotient(mw, 1)]]

GroupByStatus(frame) ==
  LET keys == SortedStrings(dropna_unique(frame, "Status"))
  IN [k \in 1..Len(keys) |->
        LET mw == SumColumn(SelectSeq(frame.rows,
                                      LAMBDA r : r.cells["Status"] = keys[k]),
                            "installed capacity MW")
        IN [Status |-> keys[k],
            TotalCapacityMW |-> mw,
            TotalCapacityGW |-> Quotient(mw, MWPerGW)]]

\* Fault: dropna looks at Start year only.
YearSubsetStartYearOnly(frame) ==
  SelectSeq(frame.rows, LAMBDA r : r.cells["Start year"] # NaN)

YearSubset(frame) ==
  SelectSeq(frame.rows,
            LAMBDA r : notna(r.cells["Start year"])
                       /\ notna(r.cells["installed capacity MW"]))

RECURSIVE cumsum(_, _)
\* Series.cumsum() of the NewCapGW column, carried from `acc`.
cumsum(rows, acc) ==
  IF rows = <<>> THEN <<>>
  ELSE LET run == Plus(acc, Head(rows).NewCapGW)
       IN <<[Head(rows) EXCEPT !.CumulativeCapGW = run]>>
          \o cumsum(Tail(rows), run)

GroupByYear(frame) ==
  LET kept == YearSubset(frame)
      years == SortedNumbers({kept[i].cells["Start year"] : i \in 1..Len(kept)})
      grouped ==
        [k \in 1..Len(years) |->
           LET mw == SumColumn(SelectSeq(kept,
                                         LAMBDA r : r.cells["Start year"] = years[k]),
                               "installed capacity MW")
           IN [Year |-> years[k],
               NewCapMW |-> mw,
               NewCapGW |-> Quotient(mw, MWPerGW),
               CumulativeCapGW |-> Quotient(0, 1)]]
  IN cumsum(grouped, Quotient(0, 1))

\* ------------------------------------------------------------------- state
Init ==
  /\ fileExists \in BOOLEAN
  /\ fileData \in Files
  /\ cache = NoCache
  /\ reads = 0
  /\ pc = "start"
  /\ message = "none"
  /\ exception = "none"
  /\ df = NoData
  /\ df_filtered = NoData
  /\ selected = [c \in {} |-> {}]
  /\ start_low = 0
  /\ start_high = 0
  /\ shown = NoData
  /\ cap_by_status = <<>>
  /\ df_year = <<>>

\* Fault: st.stop() is missing after st.error.
CheckPathWithoutStop ==
  /\ pc = "start"
  /\ pc' = "load"
  /\ message' = IF fileExists THEN message ELSE "CSV file not found"
  /\ UNCHANGED <<env, session, exception, df, filterState, outputs>>

\* Lines 24-27: the existence check, st.error and st.stop.
CheckPath ==
  /\ pc = "start"
  /\ IF fileExists
       THEN pc' = "load" /\ UNCHANGED message
       ELSE pc' = "stopped" /\ message' = "CSV file not found"
  /\ UNCHANGED <<env, session, exception, df, filterState, outputs>>

\* Lines 11-22 and 29-32: load_data under st.cache_data.
LoadData ==
  /\ pc = "load"
  /\ IF CacheHit(CSV_PATH)
       THEN /\ df' = cache[CSV_PATH]
            /\ UNCHANGED session
       ELSE /\ reads < MaxReads
            /\ df' = load_data_body(fileData)
            /\ cache' = (CSV_PATH :> df') @@ cache
            /\ reads' = reads + 1
  /\ message' = "Data loaded successfully!"
  /\ df_filtered' = df'
  /\ pc' = "Plant Type"
  /\ UNCHANGED <<env, exception, selected, start_low, start_high, outputs>>

\* One "Filter:" block of lines 64-104.
FilterBlock(col, next) ==
  /\ pc = col
  /\ IF col \in df_filtered.columns
       THEN \E sel \in SUBSET Extended(dropna_unique(df_filtered, col)) :
              LET chosen == multiselect_with_all(sel)
              IN /\ selected' = (col :> chosen) @@ selected
                 /\ df_filtered' = CategoricalFilter(df_filtered, col, chosen)
       ELSE UNCHANGED <<selected, df_filtered>>
  /\ pc' = next
  /\ UNCHANGED <<env, session, message, exception, df, start_low, start_high,
                 outputs>>

FilterPlantType == FilterBlock("Plant Type", "Technology")
FilterTechnology == FilterBlock("Technology", "Region")
FilterRegion == FilterBlock("Region", "Subregion")
FilterSubregion == FilterBlock("Subregion", "Country/area")
FilterCountry == FilterBlock("Country/area", "Status")
FilterStatus == FilterBlock("Status", "Start year")

\* Lines 106-125: the slider and the range filter.
FilterStartYear ==
  /\ pc = "Start year"
  /\ LET has == "Start year" \in df_filtered.columns
         valid_years ==
           IF has
             THEN {df_filtered.rows[i].cells["Start year"] :
                     i \in 1..Len(df_filtered.rows)} \ {NaN}
             ELSE {}
         min_year == IF valid_years # {} THEN int(Min(valid_years)) ELSE DefaultMinYear
         max_year == IF valid_years # {} THEN int(Max(valid_years)) ELSE DefaultMaxYear
     IN \E low \in SliderValues(min_year, max_year) :
          \E high \in SliderValues(min_year, max_year) :
            /\ low <= high
            /\ start_low' = low
            /\ start_high' = high
            /\ IF has
                 THEN /\ df_filtered' = YearRangeFilter(df_filtered, low, high)
                      /\ pc' = "summary"
                      /\ UNCHANGED exception
                 ELSE /\ pc' = "crashed"
                      /\ exception' = "KeyError"
                      /\ UNCHANGED df_filtered
  /\ UNCHANGED <<env, session, message, df, selected, outputs>>

\* Lines 127-134: the row count and the displayed rows.
Summary ==
  /\ pc = "summary"
  /\ IF Len(df_filtered.rows) > SampleSize
       THEN \E I \in SUBSET (1..Len(df_filtered.rows)) :
              /\ Cardinality(I) = SampleSize
              /\ shown' = [df_filtered EXCEPT
                             !.rows = [k \in 1..SampleSize |->
                                         df_filtered.rows[SortedNumbers(I)[k]]]]
       ELSE shown' = df_filtered
  /\ pc' = "by_status"
  /\ UNCHANGED <<env, session, message, exception, df, filterState,
                 cap_by_status, df_year>>

\* Lines 141-154.
CapByStatus ==
  /\ pc = "by_status"
  /\ IF /\ "Status" \in df_filtered.columns
        /\ "installed capacity MW" \in df_filtered.columns
        /\ Len(df_filtered.rows) > 0
       THEN cap_by_status' = GroupByStatus(df_filtered)
       ELSE UNCHANGED cap_by_status
  /\ pc' = "by_year"
  /\ UNCHANGED <<env, session, message, exception, df, filterState, shown,
                 df_year>>

\* Lines 169-185.
CapByYear ==
  /\ pc = "by_year"
  /\ IF /\ "Start year" \in df_filtered.columns
        /\ "installed capacity MW" \in df_filtered.columns
        /\ Len(df_filtered.rows) > 0
       THEN df_year' = GroupByYear(df_filtered)
       ELSE UNCHANGED df_year
  /\ pc' = "done"
  /\ UNCHANGED <<env, session, message, exception, df, filterState, shown,
                 cap_by_status>>

\* The script run is over; the next rerun starts from a fresh namespace.
EndRun ==
  /\ pc \in {"done", "stopped", "crashed"}
  /\ pc' = "start"
  /\ message' = "none"
  /\ exception' = "none"
  /\ df' = NoData
  /\ df_filtered' = NoData
  /\ selected' = [c \in {} |-> {}]
  /\ start_low' = 0
  /\ start_high' = 0
  /\ shown' = NoData
  /\ cap_by_status' = <<>>
  /\ df_year' = <<>>
  /\ UNCHANGED <<env, session>>

\* The environment, between two runs.
FileRemove ==
  /\ pc = "start"
  /\ fileExists
  /\ fileExists' = FALSE
  /\ UNCHANGED <<fileData, session, pc, message, exception, df, filterState,
                 outputs>>

FileRestore ==
  /\ pc = "start"
  /\ ~fileExists
  /\ fileExists' = TRUE
  /\ UNCHANGED <<fileData, session, pc, message, exception, df, filterState,
                 outputs>>

FileRewrite ==
  /\ pc = "start"
  /\ fileExists
  /\ \E d \in Rewrites(fileData) : fileData' = d
  /\ fileData' # fileData
  /\ UNCHANGED <<fileExists, session, pc, message, exception, df, filterState,
                 outputs>>

Next ==
  \/ CheckPath
  \/ LoadData
  \/ FilterPlantType
  \/ FilterTechnology
  \/ FilterRegion
  \/ FilterSubregion
  \/ FilterCountry
  \/ FilterStatus
  \/ FilterStartYear
  \/ Summary
  \/ CapByStatus
  \/ CapByYear
  \/ EndRun
  \/ FileRemove
  \/ FileRestore
  \/ FileRewrite

Spec == Init /\ [][Next]_vars

\* ------------------------------------------------------------------ claims
FilterStages ==
  {"Plant Type", "Technology", "Region", "Subregion", "Country/area", "Status",
   "Start year"}
AfterFilters == {"summary", "by_status", "by_year", "done"}

Indices(frame) == 1..Len(frame.rows)
Cell(frame, i, col) == frame.rows[i].cells[col]
PresentYears(frame) == {Cell(frame, i, "Start year") : i \in Indices(frame)} \ {NaN}
MissingYear(frame) == {i \in Indices(frame) : Cell(frame, i, "Start year") = NaN}

\* The run filtered nothing by category and the slider spans the observed range.
NoFilterFullRange ==
  /\ pc \in AfterFilters
  /\ \A c \in DOMAIN selected : selected[c] = {}
  /\ PresentYears(df) # {}
  /\ start_low * YearScale = Min(PresentYears(df))
  /\ start_high * YearScale = Max(PresentYears(df))

\* C1 as stated: with no categorical filter and the year range equal to the
\* observed Start year range, the filtered frame is the loaded frame, row for row.
C1_FullDatasetReturned == NoFilterFullRange => df_filtered = df

\* C1 amended: with no categorical filter and the year range equal to the observed
\* Start year range, the filtered frame holds exactly the loaded rows whose
\* Start year is present, unchanged and in their order.
C1_PresentYearRowsReturned ==
  NoFilterFullRange =>
    /\ df_filtered.columns = df.columns
    /\ df_filtered.rows =
         SelectSeq(df.rows, LAMBDA r : r.cells["Start year"] # NaN)

C1_Witness ==
  /\ NoFilterFullRange
  /\ MissingYear(df) # {}
  /\ Len(df_filtered.rows) >= 2
  /\ Len(df_filtered.rows) < Len(df.rows)

FilterableColumns == CategoricalColumns \cup {"Start year"}

\* C2: a run over a dataset that lacks a filterable column raises no error.
C2_AbsentColumnRaisesNoError ==
  \A c \in FilterableColumns :
    (df # NoData /\ c \notin df.columns) => (pc # "crashed" /\ exception = "none")

\* C3: after the range filter every row of the filtered frame has a present
\* Start year between the slider's low and high; no row with a missing Start year
\* is left, whatever the bounds.
C3_YearRangeExcludesMissing ==
  pc \in AfterFilters =>
    \A i \in Indices(df_filtered) :
      LET y == Cell(df_filtered, i, "Start year")
      IN y # NaN /\ start_low * YearScale <= y /\ y <= start_high * YearScale

C3_Witness ==
  /\ pc \in AfterFilters
  /\ start_low = DefaultMinYear
  /\ start_high = DefaultMaxYear
  /\ Len(df.rows) >= 2
  /\ MissingYear(df) # {}
  /\ df_filtered.rows = <<>>

\* C4: for every column with a non-empty selection, every row of the working frame
\* has one of the selected values in that column, and none has a missing value
\* there; the selection never holds the "All (no filter)" item.
C4_SelectionMembership ==
  \A c \in DOMAIN selected :
    selected[c] # {} =>
      /\ ALL \notin selected[c]
      /\ \A i \in Indices(df_filtered) :
           Cell(df_filtered, i, c) \in selected[c] /\ Cell(df_filtered, i, c) # NA

C4_Witness ==
  /\ pc = "done"
  /\ Len(df_filtered.rows) >= 1
  /\ \E c \in DOMAIN selected :
       /\ selected[c] # {}
       /\ \E i \in Indices(df) :
            /\ Cell(df, i, c) = NA
            /\ InRange(Cell(df, i, "Start year"), start_low, start_high)

RECURSIVE SumCells(_, _, _)
\* The sum of the present cells of `col` over the rows at the positions I.
SumCells(frame, I, col) ==
  IF I = {} THEN 0
  ELSE LET i == CHOOSE j \in I : TRUE
           v == Cell(frame, i, col)
       IN (IF v = NaN THEN 0 ELSE v) + SumCells(frame, I \ {i}, col)

SameValue(a, b) == a.num * b.den = b.num * a.den
IsMWOverThousand(gw, mw) == gw.num * 1000 = mw * gw.den

RECURSIVE PrefixSum(_, _)
\* NewCapGW summed over the rows 1..k of the year table.
PrefixSum(table, k) ==
  IF k = 0 THEN [num |-> 0, den |-> 1]
  ELSE Plus(PrefixSum(table, k - 1), table[k].NewCapGW)

YearRows(frame) ==
  IF "installed capacity MW" \in frame.columns /\ "Start year" \in frame.columns
    THEN {i \in Indices(frame) :
            /\ Cell(frame, i, "Start year") # NaN
            /\ Cell(frame, i, "installed capacity MW") # NaN}
    ELSE {}

\* C5: the year table has one row per distinct Start year of the filtered rows that
\* have both Start year and installed capacity MW, in strictly ascending year
\* order; NewCapGW is the year's MW sum over 1000 and CumulativeCapGW at row k is
\* the sum of NewCapGW over rows 1..k.
C5_YearTable ==
  pc = "done" =>
    LET I == YearRows(df_filtered)
        years == {Cell(df_filtered, i, "Start year") : i \in I}
    IN /\ Len(df_year) = Cardinality(years)
       /\ {df_year[k].Year : k \in 1..Len(df_year)} = years
       /\ \A k \in 1..Len(df_year) - 1 : df_year[k].Year < df_year[k + 1].Year
       /\ \A k \in 1..Len(df_year) :
            /\ IsMWOverThousand(
                 df_year[k].NewCapGW,
                 SumCells(df_filtered,
                          {i \in I : Cell(df_filtered, i, "Start year") = df_year[k].Year},
                          "installed capacity MW"))
            /\ SameValue(df_year[k].CumulativeCapGW, PrefixSum(df_year, k))

C5_Witness ==
  /\ pc = "done"
  /\ Len(df_year) = 2
  /\ df_year[2].Year - df_year[1].Year > YearScale
  /\ Cardinality(YearRows(df_filtered)) = 3
  /\ df_year[2].CumulativeCapGW = [num |-> 7, den |-> 2]

NothingRendered ==
  /\ df' = NoData
  /\ df_filtered' = NoData
  /\ selected' = [c \in {} |-> {}]
  /\ shown' = NoData
  /\ cap_by_status' = <<>>
  /\ df_year' = <<>>

\* C7: a run that finds no file at the path stops at the existence check with the
\* not-found message, without reading, loading, filtering, displaying or
\* aggregating anything, and nothing more happens in that run; a read happens
\* only after the check has passed.
C7_MissingFileHalts ==
  [][/\ (pc = "start" /\ ~fileExists /\ pc' # "start") =>
          /\ pc' = "stopped"
          /\ message' = "CSV file not found"
          /\ UNCHANGED <<cache, reads>>
          /\ NothingRendered
     /\ pc = "stopped" =>
          /\ pc' = "start"
          /\ UNCHANGED <<cache, reads>>
          /\ NothingRendered
     /\ reads' # reads => (pc = "load" /\ fileExists)]_vars

C7_Witness ==
  /\ pc = "stopped"
  /\ ~fileExists
  /\ message = "CSV file not found"
  /\ reads = 0

\* C8: the file is read at most once in a session; once the cache holds the path's
\* entry no step changes it or reads again, and every load returns that entry.
C8_ReadOnce ==
  [][/\ reads' <= 1
     /\ CSV_PATH \in DOMAIN cache => UNCHANGED <<cache, reads>>
     /\ (pc = "load" /\ pc' # "load") =>
          (CSV_PATH \in DOMAIN cache' /\ df' = cache'[CSV_PATH])]_vars

C8_Witness ==
  /\ pc = "Plant Type"
  /\ reads = 1
  /\ fileExists
  /\ load_data_body(fileData) # cache[CSV_PATH]
  /\ df = cache[CSV_PATH]

IsSubsequence(s, t) ==
  \E I \in SUBSET (1..Len(t)) :
    /\ Cardinality(I) = Len(s)
    /\ \A k \in 1..Len(s) : s[k] = t[SortedNumbers(I)[k]]

\* C9: no step of the filter stage changes the loaded frame or the cached one, and
\* the working frame is always a subsequence of the loaded frame's rows.
C9_DatasetUntouched ==
  [][/\ pc \in FilterStages => (df' = df /\ cache' = cache)
     /\ IsSubsequence(df_filtered'.rows, df'.rows)]_vars

C9_Witness ==
  /\ pc = "done"
  /\ Len(df_filtered.rows) = 2
  /\ Len(df.rows) = 3
  /\ df_filtered.rows[1] = df.rows[1]
  /\ df_filtered.rows[2] = df.rows[3]
  /\ df = cache[CSV_PATH]

\* A row satisfies every column predicate of the run's FilterSpec.
PassesAll(r) ==
  /\ \A c \in DOMAIN selected : selected[c] = {} \/ r.cells[c] \in selected[c]
  /\ r.cells["Start year"] # NaN
  /\ start_low * YearScale <= r.cells["Start year"]
  /\ r.cells["Start year"] <= start_high * YearScale

ApplyStage(stage, frame) ==
  IF stage = "Start year"
    THEN YearRangeFilter(frame, start_low, start_high)
    ELSE CategoricalFilter(frame, stage, selected[stage])

RECURSIVE AnyOrder(_, _)
\* <<S, f>> is in AnyOrder(k, stages) iff f is the loaded frame narrowed by the k
\* stages S, taken in some order.
AnyOrder(k, stages) ==
  IF k = 0 THEN {<<{}, df>>}
  ELSE LET before == AnyOrder(k - 1, stages)
       IN UNION {{<<p[1] \cup {s}, ApplyStage(s, p[2])>> : s \in stages \ p[1]} :
                   p \in before}

\* C10: the narrowed frame holds exactly the loaded rows that satisfy all column
\* predicates at once, and the same stages applied in any order give that frame.
C10_ConjunctionAnyOrder ==
  pc \in AfterFilters =>
    LET stages == DOMAIN selected \cup {"Start year"}
    IN /\ df_filtered.rows = SelectSeq(df.rows, PassesAll)
       /\ \A p \in AnyOrder(Cardinality(stages), stages) : p[2] = df_filtered

C10_Witness ==
  /\ pc = "done"
  /\ Cardinality({c \in DOMAIN selected : selected[c] # {}}) >= 2
  /\ Len(df_filtered.rows) >= 1
  /\ \E c \in DOMAIN selected :
       Len(CategoricalFilter(df, c, selected[c]).rows) < Len(df.rows)
  /\ Len(YearRangeFilter(df, start_low, start_high).rows) < Len(df.rows)

====
